---- MODULE Spec2Model ----
(***************************************************************************)
(* A model of the translation service (translateText), the language        *)
(* registry, and the route handlers that call them.                        *)
(*                                                                         *)
(* JavaScript values that may be absent are modelled as records            *)
(* [t |-> type tag, s |-> string payload]; strings are TLA+ strings.       *)
(***************************************************************************)
EXTENDS Integers, Sequences, FiniteSets, TLC

VARIABLES
    \* ---- server side: one request being served at a time ----
    pc,              \* "idle" | "await" (suspended on the chat completion) | "done"
    caller,          \* who invoked translateText / served the request
    request,         \* the search params / form data the route handler received
    response,        \* what the route handler answered
    invoked,         \* TRUE iff the route handler called translateText
    fromLanguageId,  \* translateText's arguments
    toLanguageId,
    inputText,
    fromLanguage,    \* translateText's resolved display names
    toLanguage,
    messages,        \* the message sequence handed to chat.completions.create
    model,           \* the model identifier handed to chat.completions.create
    apiCalls,        \* chat.completions.create calls issued by this invocation
    settled,         \* what the awaited call settled with
    lookups,         \* registry lookups made by this invocation
    result,          \* translateText's completion
    gotInput,        \* the list getSupportedInputLanguages() returned to this request
    gotOutput,       \* the list getSupportedOutputLanguages() returned to this request
    \* ---- the Index page driven by navigations (Form, useSubmit) ----
    variant,         \* which Index component: "handleSubmit" | "handleSwapLanguages"
    ui,              \* the component's state: inputText, inputLanguage, outputLanguage
    url,             \* the search params of the current location
    loaderData,      \* what useLoaderData() gives
    navigation,      \* the pending navigation, if any
    timer,           \* the debounced submit's timer
    log,             \* when requests were issued (history)
    crashed,         \* the loader threw: the route is replaced by the error boundary
    \* ---- the Index page driven by a fetcher (useFetcher, useDebounceValue) ----
    fx,              \* the component's state
    translateFetcher,\* the fetcher: its state, its last submission, its data
    valueTimer,      \* the debounced setter's timer and the value it will set
    \* ---- translateText invoked concurrently against a deterministic model ----
    frames,          \* the locals of each invocation in flight
    answers,         \* what the model has answered, by message sequence
    returned,        \* per argument triple: how often it returned, and which texts
    \* ---- the process and the evaluation of the translation module ----
    env,             \* process.env
    loaded,          \* the module's evaluation: "no" | "ready" | "failed"
    GROQ_API_KEY,    \* the module's constant
    \* ---- the arrays the registry functions return, as objects ----
    heap,            \* the array objects: whether in use, and their entries
    lastCall,        \* the last registry call: which function, the object it
                     \* returned and the entries it had on return
    resolved         \* the names translateText resolved last

svcVars == <<pc, caller, request, response, invoked, fromLanguageId, toLanguageId,
             inputText, fromLanguage, toLanguage, messages, model, apiCalls,
             settled, lookups, result, gotInput, gotOutput>>

pageVars == <<variant, ui, url, loaderData, navigation, timer, log, crashed>>

fetVars == <<fx, translateFetcher, valueTimer>>

callVars == <<frames, answers, returned>>

loadVars == <<env, loaded, GROQ_API_KEY>>

heapVars == <<heap, lastCall, resolved>>

auxVars == <<callVars, loadVars, heapVars>>

clientVars == <<pageVars, fetVars, auxVars>>

vars == <<svcVars, pageVars, fetVars, auxVars>>

----------------------------------------------------------------------------
(* JavaScript values *)

Undefined == [t |-> "undefined", s |-> ""]
Null == [t |-> "null", s |-> ""]
Str(s) == [t |-> "string", s |-> s]

\* (mutant) an absent value rendered as nothing
TemplateStringEmpty(v) == IF v.t = "string" THEN v.s ELSE ""

\* What a template literal `${v}` renders.
TemplateString(v) ==
    CASE v.t = "undefined" -> "undefined"
      [] v.t = "null" -> "null"
      [] OTHER -> v.s

\* JavaScript truthiness, as used by `x || ""`.
Truthy(v) == v.t = "string" /\ v.s # ""

Return(v) == [kind |-> "return", value |-> v]
Throw(e) == [kind |-> "throw", value |-> Str(e)]
NoCompletion == [kind |-> "none", value |-> Undefined]

----------------------------------------------------------------------------
(* Language registry *)

\* (mutant) the auto sentinel offered as an output language
getSupportedOutputLanguagesWithAuto ==
    << [id |-> "auto", name |-> "Auto"],
       [id |-> "en", name |-> "English"],
       [id |-> "es", name |-> "Español"],
       [id |-> "de", name |-> "Deutsch"] >>

getSupportedOutputLanguages ==
    << [id |-> "en", name |-> "English"],
       [id |-> "es", name |-> "Español"],
       [id |-> "de", name |-> "Deutsch"] >>

getSupportedInputLanguages ==
    << [id |-> "auto", name |-> "Auto"],
       [id |-> "en", name |-> "English"],
       [id |-> "es", name |-> "Español"],
       [id |-> "de", name |-> "Deutsch"] >>

Ids(langs) == [i \in 1..Len(langs) |-> langs[i].id]

\* langs.find((lang) => lang.id === id)?.name
FindName(langs, id) ==
    LET hits == {i \in 1..Len(langs) : langs[i].id = id}
    IN  IF hits = {} THEN Undefined
        ELSE Str(langs[CHOOSE i \in hits : \A j \in hits : i <= j].name)

----------------------------------------------------------------------------
(* translateText *)

ErrorText == "Error translating text"
ModelName == "llama3-70b-8192"

\* (TLA+ strings cannot hold a backquote: the four backquotes of the source
\* text are written as apostrophes.)
SystemPrompt == "You are an AI that translates text. You receive a text from the user. Do not answer, just translate the text. The original language is surrounded by '{{' and '}}'. You can also receive {{auto}} wich means that you have to detect the language. The language you translate to is surrounded by '[[' and ']]'."

\* The fixed head of the message sequence: the system instruction and the
\* worked examples.
FixedMessages ==
    << [role |-> "system", content |-> SystemPrompt],
       [role |-> "user", content |-> "Hola mundo {{Español}} [[English]]"],
       [role |-> "assistant", content |-> "Hello world"],
       [role |-> "user", content |-> "How are you? {{Auto}} [[Deutsch]]"],
       [role |-> "assistant", content |-> "Wie geht es dir?"],
       [role |-> "user", content |-> "Buen día, como estás? {{Auto}} [[English]]"],
       [role |-> "assistant", content |-> "Good morning, how are you?"] >>

\* (mutant) the two names in each other's markers
UserContentSwapped(text, from, to) ==
    text \o " {{" \o TemplateString(to) \o "}} [[" \o TemplateString(from) \o "]]"

\* `${inputText} {{${fromLanguage}}} [[${toLanguage}]]`
UserContent(text, from, to) ==
    text \o " {{" \o TemplateString(from) \o "}} [[" \o TemplateString(to) \o "]]"

BuildMessages(text, from, to) ==
    FixedMessages \o << [role |-> "user", content |-> UserContent(text, from, to)] >>

\* (mutant) the comparison made only for identifiers of the output registry
IsIdentityListed(from, to) == from = to /\ from \in {"en", "es", "de"}

\* fromLanguageId === toLanguageId
IsIdentity(from, to) == from = to

\* (mutant) the content returned as it came, without `|| ""`
TryBodyRaw(o) ==
    IF o.kind = "throw" THEN Throw(o.error)
    ELSE IF Len(o.choices) = 0 THEN Throw("TypeError")
    ELSE Return(o.choices[1])

\* The body of the try block once the awaited call has settled with outcome o:
\* a rejection throws, result.choices[0].message on an empty choices array
\* throws a TypeError, otherwise `content || ""` is returned.
TryBody(o) ==
    IF o.kind = "throw" THEN Throw(o.error)
    ELSE IF Len(o.choices) = 0 THEN Throw("TypeError")
    ELSE LET content == o.choices[1]
         IN  Return(IF Truthy(content) THEN content ELSE Str(""))

\* (mutant) the error thrown on to the caller
CatchRethrow(c) == c

\* catch (error) { return "Error translating text"; }
CatchBlock(c) == IF c.kind = "throw" THEN Return(Str(ErrorText)) ELSE c

----------------------------------------------------------------------------
(* Request validation (zod schemas parsed by parseWithZod) *)

MinTextLen == 3
MaxTextLen == 200
MaxTextLenIndex == 50

InputLanguageEnum == {"auto", "en", "es", "de"}
OutputLanguageEnum == {"en", "es", "de"}

Ok(v) == [ok |-> TRUE, value |-> v]
Fail == [ok |-> FALSE, value |-> ""]

\* parseWithZod reads an empty field as an absent one.
Coerce(v) == IF v.t = "string" /\ v.s = "" THEN Undefined ELSE v

\* z.enum(values), with .default(d) when hasDefault
ParseEnum(v, values, hasDefault, d) ==
    LET c == Coerce(v)
    IN  IF c.t = "undefined" THEN (IF hasDefault THEN Ok(d) ELSE Fail)
        ELSE IF c.t = "string" /\ c.s \in values THEN Ok(c.s)
        ELSE Fail

\* (mutant) the upper bound not checked
ParseTextNoMax(v, lo, hi) ==
    LET c == Coerce(v)
    IN  IF c.t # "string" THEN Fail
        ELSE IF Len(c.s) < lo THEN Fail
        ELSE Ok(c.s)

\* z.string({required_error}).min(lo).max(hi)
ParseText(v, lo, hi) ==
    LET c == Coerce(v)
    IN  IF c.t # "string" THEN Fail
        ELSE IF Len(c.s) < lo THEN Fail
        ELSE IF Len(c.s) > hi THEN Fail
        ELSE Ok(c.s)

\* languageSchema of the loader with defaults
languageSchema(req) ==
    LET i == ParseEnum(req.inputLanguage, InputLanguageEnum, TRUE, "auto")
        o == ParseEnum(req.outputLanguage, OutputLanguageEnum, TRUE, "en")
    IN  [ok |-> i.ok /\ o.ok, inputLanguage |-> i.value, outputLanguage |-> o.value]

translateTextSchema(req) == ParseText(req.inputText, MinTextLen, MaxTextLen)

\* languageSchema of the index route's loader: no defaults
indexLanguageSchema(req) ==
    LET i == ParseEnum(req.inputLanguage, InputLanguageEnum, FALSE, "")
        o == ParseEnum(req.outputLanguage, OutputLanguageEnum, FALSE, "")
    IN  [ok |-> i.ok /\ o.ok, inputLanguage |-> i.value, outputLanguage |-> o.value]

indexTranslateTextSchema(req) == ParseText(req.inputText, MinTextLen, MaxTextLenIndex)

\* translateSchema of the index route's action (its text field is named "text";
\* the request record carries it as inputText)
translateSchema(req) ==
    LET l == indexLanguageSchema(req)
        x == ParseText(req.inputText, MinTextLen, MaxTextLenIndex)
    IN  [ok |-> l.ok /\ x.ok, inputLanguage |-> l.inputLanguage,
         outputLanguage |-> l.outputLanguage, text |-> x.value]

----------------------------------------------------------------------------
(* Responses of the route handlers *)

NoResponse == [kind |-> "none", outputText |-> Undefined, inputLanguage |-> "", outputLanguage |-> ""]
Data(text, i, o) == [kind |-> "data", outputText |-> text, inputLanguage |-> i, outputLanguage |-> o]
Thrown == [kind |-> "throw", outputText |-> Undefined, inputLanguage |-> "", outputLanguage |-> ""]
Redirect == [kind |-> "redirect", outputText |-> Undefined, inputLanguage |-> "", outputLanguage |-> ""]
Reply == [kind |-> "reply", outputText |-> Undefined, inputLanguage |-> "", outputLanguage |-> ""]

\* What the handler c answers once translateText(f, t, ..) has completed with res.
HandlerResponse(c, f, t, res) ==
    IF c = "direct" THEN NoResponse
    ELSE IF res.kind = "throw" THEN Thrown
    ELSE CASE c = "loader" -> Data(res.value, f, t)
           [] c = "indexLoader" ->
                Data(IF res.value.t \in {"undefined", "null"} THEN Str("") ELSE res.value, "", "")
           [] OTHER -> Data(res.value, "", "")

----------------------------------------------------------------------------
(* Inputs *)

MaxChoices == 2

\* A text of n characters.
RECURSIVE Rep(_)
Rep(n) ==
    IF n = 0 THEN ""
    ELSE LET half == Rep(n \div 2)
         IN  IF n % 2 = 0 THEN half \o half ELSE half \o half \o "x"

\* Identifiers a caller may pass: the registry's, and one that is in no registry.
CallIds == {"auto", "en", "es", "de", "fr"}
CallTexts == {"", "Hola mundo", "How are you?"}

\* Values a request may carry for a language field and for the text field.
RequestLanguages == {Undefined, Str("")} \cup {Str(l) : l \in CallIds}
RequestTexts ==
    {Undefined, Str(""), Str("ab"), Str("abc"), Str("Hola mundo"),
     Str(Rep(MaxTextLenIndex)), Str(Rep(MaxTextLenIndex + 1)),
     Str(Rep(MaxTextLen)), Str(Rep(MaxTextLen + 1))}
Requests ==
    [inputLanguage : RequestLanguages, outputLanguage : RequestLanguages,
     inputText : RequestTexts]
NoRequest == [inputLanguage |-> Undefined, outputLanguage |-> Undefined, inputText |-> Undefined]

\* What the awaited chat.completions.create may settle with: a rejection, or a
\* response whose choices carry a content each (a string or null).
ApiErrors == {"network", "authentication", "rate limit"}
Contents == {Str("Hello world"), Str(""), Null, Undefined}
ChoiceLists == UNION {[1..n -> Contents] : n \in 0..MaxChoices}
ApiOutcomes ==
    {[kind |-> "throw", error |-> e, choices |-> <<>>] : e \in ApiErrors}
    \cup {[kind |-> "ok", error |-> "", choices |-> c] : c \in ChoiceLists}
NoOutcome == [kind |-> "none", error |-> "", choices |-> <<>>]

----------------------------------------------------------------------------
(* Server-side steps *)

InitService ==
    /\ pc = "idle"
    /\ caller = "none"
    /\ request = NoRequest
    /\ response = NoResponse
    /\ invoked = FALSE
    /\ fromLanguageId = ""
    /\ toLanguageId = ""
    /\ inputText = ""
    /\ fromLanguage = Undefined
    /\ toLanguage = Undefined
    /\ messages = <<>>
    /\ model = ""
    /\ apiCalls = 0
    /\ settled = NoOutcome
    /\ lookups = 0
    /\ result = NoCompletion
    /\ gotInput = <<>>
    /\ gotOutput = <<>>

\* translateText(from, to, text) up to its first suspension: the identity
\* return, or the client, the two registry lookups, the message sequence and
\* the call of chat.completions.create, whose result is awaited.
Enter(from, to, text) ==
    /\ invoked' = TRUE
    /\ settled' = NoOutcome
    /\ fromLanguageId' = from
    /\ toLanguageId' = to
    /\ inputText' = text
    /\ IF IsIdentity(from, to)
       THEN /\ pc' = "done"
            /\ result' = Return(Str(text))
            /\ fromLanguage' = Undefined
            /\ toLanguage' = Undefined
            /\ messages' = <<>>
            /\ model' = ""
            /\ apiCalls' = 0
            /\ lookups' = 0
       ELSE /\ fromLanguage' = FindName(getSupportedInputLanguages, from)
            /\ toLanguage' = FindName(getSupportedOutputLanguages, to)
            /\ lookups' = 2
            /\ messages' = BuildMessages(text, fromLanguage', toLanguage')
            /\ model' = ModelName
            /\ apiCalls' = 1
            /\ result' = NoCompletion
            /\ pc' = "await"

\* The registry list a request holds when only translateText(from, to, ..) reads
\* the registry: none on the identity path, which returns before the lookups.
Held(from, to, list) == IF IsIdentity(from, to) THEN <<>> ELSE list

\* The handler returns without calling translateText.
Skip ==
    /\ invoked' = FALSE
    /\ settled' = NoOutcome
    /\ fromLanguageId' = ""
    /\ toLanguageId' = ""
    /\ inputText' = ""
    /\ fromLanguage' = Undefined
    /\ toLanguage' = Undefined
    /\ messages' = <<>>
    /\ model' = ""
    /\ apiCalls' = 0
    /\ lookups' = 0
    /\ result' = NoCompletion
    /\ pc' = "done"

\* A caller other than the route handlers invokes translateText.
TranslateText(from, to, text) ==
    /\ pc = "idle"
    /\ UNCHANGED clientVars
    /\ caller' = "direct"
    /\ request' = NoRequest
    /\ Enter(from, to, text)
    /\ response' = NoResponse
    /\ gotInput' = Held(from, to, getSupportedInputLanguages)
    /\ gotOutput' = Held(from, to, getSupportedOutputLanguages)

\* loader: the languages are parsed first (a failure throws), then the text (a
\* failure answers an empty output), then translateText is called.
Loader(req) ==
    /\ pc = "idle"
    /\ UNCHANGED clientVars
    /\ caller' = "loader"
    /\ request' = req
    /\ gotInput' = getSupportedInputLanguages
    /\ gotOutput' = getSupportedOutputLanguages
    /\ LET lang == languageSchema(req)
           text == translateTextSchema(req)
       IN  IF ~lang.ok THEN Skip /\ response' = Thrown
           ELSE IF ~text.ok
                THEN Skip /\ response' = Data(Str(""), lang.inputLanguage, lang.outputLanguage)
           ELSE /\ Enter(lang.inputLanguage, lang.outputLanguage, text.value)
                /\ response' = IF result'.kind = "none" THEN NoResponse
                               ELSE HandlerResponse("loader", lang.inputLanguage,
                                                    lang.outputLanguage, result')

\* The index route's loader: the text is parsed first (a failure answers an
\* empty output), then the languages (a failure redirects with an error).
IndexLoader(req) ==
    /\ pc = "idle"
    /\ UNCHANGED clientVars
    /\ caller' = "indexLoader"
    /\ request' = req
    /\ gotInput' = getSupportedInputLanguages
    /\ gotOutput' = getSupportedOutputLanguages
    /\ LET text == indexTranslateTextSchema(req)
           lang == indexLanguageSchema(req)
       IN  IF ~text.ok THEN Skip /\ response' = Data(Str(""), "", "")
           ELSE IF ~lang.ok THEN Skip /\ response' = Redirect
           ELSE /\ Enter(lang.inputLanguage, lang.outputLanguage, text.value)
                /\ response' = IF result'.kind = "none" THEN NoResponse
                               ELSE HandlerResponse("indexLoader", lang.inputLanguage,
                                                    lang.outputLanguage, result')

\* The index route's action: one schema; a failure answers the submission's reply.
\* The action reads no registry itself: translateText does, past its identity check.
IndexAction(req) ==
    /\ pc = "idle"
    /\ UNCHANGED clientVars
    /\ caller' = "indexAction"
    /\ request' = req
    /\ LET sub == translateSchema(req)
       IN  IF ~sub.ok
           THEN Skip /\ response' = Reply /\ gotInput' = <<>> /\ gotOutput' = <<>>
           ELSE /\ Enter(sub.inputLanguage, sub.outputLanguage, sub.text)
                /\ gotInput' = Held(sub.inputLanguage, sub.outputLanguage, getSupportedInputLanguages)
                /\ gotOutput' = Held(sub.inputLanguage, sub.outputLanguage, getSupportedOutputLanguages)
                /\ response' = IF result'.kind = "none" THEN NoResponse
                               ELSE HandlerResponse("indexAction", sub.inputLanguage,
                                                    sub.outputLanguage, result')

\* (mutant) a rejected call issued once more
ApiSettleRetry(o) ==
    /\ pc = "await"
    /\ UNCHANGED clientVars
    /\ IF o.kind = "throw" /\ apiCalls < 2
       THEN /\ apiCalls' = apiCalls + 1
            /\ UNCHANGED <<pc, settled, result, response>>
       ELSE /\ settled' = o
            /\ result' = CatchBlock(TryBody(o))
            /\ pc' = "done"
            /\ response' = HandlerResponse(caller, fromLanguageId, toLanguageId, result')
            /\ UNCHANGED apiCalls
    /\ UNCHANGED <<caller, request, invoked, fromLanguageId, toLanguageId, inputText,
                   fromLanguage, toLanguage, messages, model, lookups,
                   gotInput, gotOutput>>

\* The awaited call settles with outcome o: translateText resumes in its try
\* block and completes; the handler that awaited it answers.
ApiSettle(o) ==
    /\ pc = "await"
    /\ UNCHANGED clientVars
    /\ settled' = o
    /\ result' = CatchBlock(TryBody(o))
    /\ pc' = "done"
    /\ response' = HandlerResponse(caller, fromLanguageId, toLanguageId, result')
    /\ UNCHANGED <<caller, request, invoked, fromLanguageId, toLanguageId, inputText,
                   fromLanguage, toLanguage, messages, model, apiCalls, lookups,
                   gotInput, gotOutput>>

\* The request has been answered: its frame is discarded, and the next request
\* starts from nothing (the service keeps no state between requests).
Finish ==
    /\ pc = "done"
    /\ UNCHANGED clientVars
    /\ pc' = "idle"
    /\ caller' = "none"
    /\ request' = NoRequest
    /\ response' = NoResponse
    /\ invoked' = FALSE
    /\ settled' = NoOutcome
    /\ fromLanguageId' = ""
    /\ toLanguageId' = ""
    /\ inputText' = ""
    /\ fromLanguage' = Undefined
    /\ toLanguage' = Undefined
    /\ messages' = <<>>
    /\ model' = ""
    /\ apiCalls' = 0
    /\ lookups' = 0
    /\ result' = NoCompletion
    /\ gotInput' = <<>>
    /\ gotOutput' = <<>>

----------------------------------------------------------------------------
(* The Index page whose form navigates: Form onChange / onSubmit, useSubmit,   *)
(* useDebounceCallback, useNavigation, useLoaderData.  Two components of     *)
(* this shape exist: one with handleSubmit (guarded handleChangeForm, loader *)
(* with defaults), one with handleSwapLanguages.  A select's change event is *)
(* taken to come from the user choosing a value.                             *)

DebounceMs == 500
TickMs == 250

Variants == {"handleSubmit", "handleSwapLanguages"}

\* What the user types and chooses, and what a call settles with.
PageTexts == {"", "abc", "Hola"}
PageInputLanguages == {"auto", "en", "es"}
PageOutputLanguages == {"en", "es"}
PageOutcomes == {[kind |-> "ok", error |-> "", choices |-> <<Str("Hola")>>]}

\* translateText as a function of its arguments and of what its call settles with
TranslateResult(from, to, text, o) ==
    IF IsIdentity(from, to) THEN Return(Str(text)) ELSE CatchBlock(TryBody(o))

\* The loader's answer to a request, o being what the call settles with if made.
LoaderAnswer(req, o) ==
    LET lang == languageSchema(req)
        text == translateTextSchema(req)
    IN  IF ~lang.ok THEN Thrown
        ELSE IF ~text.ok THEN Data(Str(""), lang.inputLanguage, lang.outputLanguage)
        ELSE HandlerResponse("loader", lang.inputLanguage, lang.outputLanguage,
                 TranslateResult(lang.inputLanguage, lang.outputLanguage, text.value, o))

\* The index route's loader, likewise.
IndexLoaderAnswer(req, o) ==
    LET text == indexTranslateTextSchema(req)
        lang == indexLanguageSchema(req)
    IN  IF ~text.ok THEN Data(Str(""), "", "")
        ELSE IF ~lang.ok THEN Redirect
        ELSE HandlerResponse("indexLoader", lang.inputLanguage, lang.outputLanguage,
                 TranslateResult(lang.inputLanguage, lang.outputLanguage, text.value, o))

\* The form's fields as submit(form) serializes them.
FormRequest(u) ==
    [inputLanguage |-> Str(u.inputLanguage), outputLanguage |-> Str(u.outputLanguage),
     inputText |-> Str(u.inputText)]

\* searchParams.get(field) ?? d
UrlValue(u, field, d) == IF u[field].t = "string" THEN u[field].s ELSE d

\* navigation.state !== "idle"
isTranslating == navigation.state # "idle"

\* The read-only textarea's value.
ShownOutput == IF isTranslating THEN "Translating..." ELSE loaderData.outputText.s

\* The swap button's disabled attribute.
SwapDisabled ==
    IF variant = "handleSubmit"
    THEN ui.inputLanguage = "auto" \/ isTranslating \/ ui.inputLanguage = ui.outputLanguage
    ELSE \/ UrlValue(url, "inputLanguage", "auto") = "auto"
         \/ isTranslating
         \/ UrlValue(url, "inputLanguage", "auto") = UrlValue(url, "outputLanguage", "en")

\* The debounce timer: whether a call is pending, the time since the last call
\* of the debounced function, and whether that call found one pending already.
NoTimer == [armed |-> FALSE, elapsed |-> 0, rearmed |-> FALSE]
NoNavigation == [state |-> "idle", req |-> NoRequest]

\* History of the requests issued.
\*   sinceIssue: the time since the last request, kept up to DebounceMs (which
\*     also stands for "none yet")
\*   burst: some request was issued less than DebounceMs after the one before
\*   early: some debounced request was issued less than DebounceMs after the
\*     last textarea edit that called the debounced function
\*   coalesced: some debounced request stood for several such edits
NoLog == [sinceIssue |-> DebounceMs, burst |-> FALSE, early |-> FALSE, coalesced |-> FALSE]

InitPage ==
    /\ variant \in Variants
    /\ ui = [inputText |-> "", inputLanguage |-> "auto", outputLanguage |-> "en"]
    /\ url = NoRequest
    /\ loaderData = IF variant = "handleSubmit" THEN Data(Str(""), "auto", "en")
                    ELSE Data(Str(""), "", "")
    /\ navigation = NoNavigation
    /\ timer = NoTimer
    /\ log = NoLog
    /\ crashed = FALSE

\* (mutant) a debounce that fires at once
DueAtOnce(elapsed) == TRUE

\* useDebounceCallback(submit, 500): the pending call runs once 500 ms have
\* passed since the last call of the debounced function.
Due(elapsed) == elapsed >= DebounceMs

After(t) == IF t + TickMs > DebounceMs THEN DebounceMs ELSE t + TickMs

\* submit(...): a navigation starts (a pending one is interrupted), and the
\* request goes out.
Submit(req, via) ==
    /\ navigation' = [state |-> "loading", req |-> req]
    /\ log' = [sinceIssue |-> 0,
               burst |-> log.burst \/ log.sinceIssue < DebounceMs,
               early |-> log.early \/ (via = "debounce" /\ timer.elapsed < DebounceMs),
               coalesced |-> log.coalesced \/ (via = "debounce" /\ timer.rearmed)]

\* handleChangeForm: text is the inputText the handler's closure holds, form the
\* fields submit(e.currentTarget) would serialize.
HandleChangeForm(isTextarea, text, form) ==
    IF variant = "handleSubmit" /\ ~(Len(text) > 3)
    THEN UNCHANGED <<timer, navigation, log>>
    ELSE IF isTextarea
         THEN /\ timer' = [armed |-> TRUE, elapsed |-> 0, rearmed |-> timer.armed]
              /\ UNCHANGED <<navigation, log>>
         ELSE /\ Submit(form, "change")
              /\ UNCHANGED timer

\* The user edits the textarea: its onChange sets the state, and the form's
\* onChange runs handleChangeForm, whose closure still holds the text as it was.
EditText(x) ==
    /\ ~crashed
    /\ x # ui.inputText
    /\ ui' = [ui EXCEPT !.inputText = x]
    /\ HandleChangeForm(TRUE, ui.inputText, FormRequest(ui'))
    /\ UNCHANGED <<variant, url, loaderData, crashed, svcVars, fetVars, auxVars>>

\* The user chooses an input language.
SelectInputLanguage(l) ==
    /\ ~crashed
    /\ l # ui.inputLanguage
    /\ ui' = [ui EXCEPT !.inputLanguage = l]
    /\ HandleChangeForm(FALSE, ui.inputText, FormRequest(ui'))
    /\ UNCHANGED <<variant, url, loaderData, crashed, svcVars, fetVars, auxVars>>

\* The user chooses an output language.
SelectOutputLanguage(l) ==
    /\ ~crashed
    /\ l # ui.outputLanguage
    /\ ui' = [ui EXCEPT !.outputLanguage = l]
    /\ HandleChangeForm(FALSE, ui.inputText, FormRequest(ui'))
    /\ UNCHANGED <<variant, url, loaderData, crashed, svcVars, fetVars, auxVars>>

\* The debounce timer expires: submit(form) with the form as it is now.
DebounceFire ==
    /\ ~crashed
    /\ timer.armed
    /\ Due(timer.elapsed)
    /\ Submit(FormRequest(ui), "debounce")
    /\ timer' = NoTimer
    /\ UNCHANGED <<variant, ui, url, loaderData, crashed, svcVars, fetVars, auxVars>>

\* handleSubmit: a submit button is pressed (the textarea is required, so the
\* form submits only with a text; the arrow button may be disabled, the other
\* button never is).  The languages are swapped and the output becomes the input.
HandleSubmit(button) ==
    /\ ~crashed
    /\ variant = "handleSubmit"
    /\ ui.inputText # ""
    /\ button = "arrow" => ~SwapDisabled
    /\ ui' = [inputText |-> loaderData.outputText.s,
              inputLanguage |-> ui.outputLanguage,
              outputLanguage |-> ui.inputLanguage]
    /\ Submit([inputLanguage |-> Str(ui.outputLanguage),
               outputLanguage |-> Str(ui.inputLanguage),
               inputText |-> loaderData.outputText], "submit")
    /\ UNCHANGED <<variant, url, loaderData, timer, crashed, svcVars, fetVars, auxVars>>

\* handleSwapLanguages: the arrow button's onClick; it prevents the submission.
HandleSwapLanguages ==
    /\ ~crashed
    /\ variant = "handleSwapLanguages"
    /\ ~SwapDisabled
    /\ ui' = [inputText |-> loaderData.outputText.s,
              inputLanguage |-> ui.outputLanguage,
              outputLanguage |-> ui.inputLanguage]
    /\ UNCHANGED <<variant, url, loaderData, navigation, timer, log, crashed, svcVars, fetVars, auxVars>>

\* The other submit button of the form without onSubmit: the Form submits itself.
FormSubmit ==
    /\ ~crashed
    /\ variant = "handleSwapLanguages"
    /\ ui.inputText # ""
    /\ Submit(FormRequest(ui), "submit")
    /\ UNCHANGED <<variant, ui, url, loaderData, timer, crashed, svcVars, fetVars, auxVars>>

\* The state the effects leave once the location and the loader data are new.
AfterEffects(newUrl, newData) ==
    IF variant = "handleSubmit"
    THEN IF <<newData.inputLanguage, newData.outputLanguage>>
              # <<loaderData.inputLanguage, loaderData.outputLanguage>>
         THEN [ui EXCEPT !.inputLanguage = newData.inputLanguage,
                         !.outputLanguage = newData.outputLanguage]
         ELSE ui
    ELSE [inputText |->
              IF UrlValue(newUrl, "inputText", "") # UrlValue(url, "inputText", "")
              THEN UrlValue(newUrl, "inputText", "") ELSE ui.inputText,
          inputLanguage |->
              IF UrlValue(newUrl, "inputLanguage", "auto") # UrlValue(url, "inputLanguage", "auto")
              THEN UrlValue(newUrl, "inputLanguage", "auto") ELSE ui.inputLanguage,
          outputLanguage |->
              IF UrlValue(newUrl, "outputLanguage", "en") # UrlValue(url, "outputLanguage", "en")
              THEN UrlValue(newUrl, "outputLanguage", "en") ELSE ui.outputLanguage]

\* The pending navigation's loader answers (o: what translateText's call settled
\* with, if it was made): the location and the loader data change and the
\* effects run; a throw replaces the route by the error boundary; a redirect
\* loads "/" anew.  The component with handleSubmit reads the search params
\* only when it mounts, so the location is followed for the other one only.
NavigationComplete(o) ==
    /\ isTranslating
    /\ LET req == navigation.req
           ans == IF variant = "handleSubmit" THEN LoaderAnswer(req, o)
                  ELSE IndexLoaderAnswer(req, o)
       IN  IF ans.kind = "throw"
           THEN /\ crashed' = TRUE
                /\ timer' = NoTimer
                /\ UNCHANGED <<ui, url, loaderData>>
           ELSE LET newUrl == IF variant = "handleSubmit" THEN url
                              ELSE IF ans.kind = "redirect" THEN NoRequest ELSE req
                    newData == IF ans.kind = "redirect" THEN Data(Str(""), "", "") ELSE ans
                IN  /\ url' = newUrl
                    /\ loaderData' = newData
                    /\ ui' = AfterEffects(newUrl, newData)
                    /\ UNCHANGED <<crashed, timer>>
    /\ navigation' = NoNavigation
    /\ UNCHANGED <<variant, log, svcVars, fetVars, auxVars>>

\* Time passes, unless the debounce timer is due.
Tick ==
    /\ ~(timer.armed /\ Due(timer.elapsed))
    /\ timer' = IF timer.armed THEN [timer EXCEPT !.elapsed = After(timer.elapsed)] ELSE timer
    /\ log' = [log EXCEPT !.sinceIssue = After(log.sinceIssue)]
    /\ UNCHANGED <<variant, ui, url, loaderData, navigation, crashed, svcVars, fetVars, auxVars>>

----------------------------------------------------------------------------
(* The Index page that translates through a fetcher: useFetcher, useDebounceValue, *)
(* three effects, handleSwapLanguages.                                             *)

FetcherTexts == {"", "ab", "Hola"}
FetcherOutcomes ==
    {[kind |-> "ok", error |-> "", choices |-> <<Str("Hello world")>>],
     [kind |-> "ok", error |-> "", choices |-> <<Str("")>>]}

\* The action's answer to a submission, o being what the call settles with if made.
ActionAnswer(req, o) ==
    LET sub == translateSchema(req)
    IN  IF ~sub.ok THEN Reply
        ELSE HandlerResponse("indexAction", sub.inputLanguage, sub.outputLanguage,
                 TranslateResult(sub.inputLanguage, sub.outputLanguage, sub.text, o))

\* What translateFetcher.submit sends: the selected languages and the debounced text.
FetcherRequest(in, out, text) ==
    [inputLanguage |-> Str(in), outputLanguage |-> Str(out), inputText |-> Str(text)]

\* translateFetcher.state !== "idle"
fetcherTranslating == translateFetcher.state # "idle"

\* The read-only textarea's value.
FetcherShownOutput == IF fetcherTranslating THEN "Translating" ELSE fx.outputText

\* Mounted: the states hold their initial values, the submitting effect has run
\* once, and the effect on inputText has called the debounced setter.
InitFetcher ==
    /\ fx = [selectedInputLanguage |-> "auto",
             selectedOutputLanguage |-> getSupportedOutputLanguages[1].id,
             inputText |-> "", debouncedInputText |-> "", outputText |-> ""]
    /\ translateFetcher = [state |-> "submitting",
                           req |-> FetcherRequest("auto", getSupportedOutputLanguages[1].id, ""),
                           data |-> NoResponse]
    /\ valueTimer = [armed |-> TRUE, value |-> ""]

\* The effect on [selectedInputLanguage, selectedOutputLanguage,
\* debouncedInputText]: when one of them has changed, translateFetcher.submit
\* (a submission in flight is replaced; the data stay until the answer).
SubmitEffect(new) ==
    IF <<new.selectedInputLanguage, new.selectedOutputLanguage, new.debouncedInputText>>
         # <<fx.selectedInputLanguage, fx.selectedOutputLanguage, fx.debouncedInputText>>
    THEN translateFetcher' =
             [state |-> "submitting",
              req |-> FetcherRequest(new.selectedInputLanguage, new.selectedOutputLanguage,
                                     new.debouncedInputText),
              data |-> translateFetcher.data]
    ELSE UNCHANGED translateFetcher

\* The effect on inputText: setDebouncedInputText(inputText), debounced.
DebounceEffect(new) ==
    IF new.inputText # fx.inputText
    THEN valueTimer' = [armed |-> TRUE, value |-> new.inputText]
    ELSE UNCHANGED valueTimer

\* The user edits the textarea.
FetcherEditText(x) ==
    /\ x # fx.inputText
    /\ fx' = [fx EXCEPT !.inputText = x]
    /\ DebounceEffect(fx')
    /\ SubmitEffect(fx')
    /\ UNCHANGED <<svcVars, pageVars, auxVars>>

\* The debounced setter runs: debouncedInputText takes the value.
FetcherDebounce ==
    /\ valueTimer.armed
    /\ fx' = [fx EXCEPT !.debouncedInputText = valueTimer.value]
    /\ valueTimer' = [armed |-> FALSE, value |-> ""]
    /\ SubmitEffect(fx')
    /\ UNCHANGED <<svcVars, pageVars, auxVars>>

\* The user chooses an input language.
FetcherSelectInput(l) ==
    /\ l # fx.selectedInputLanguage
    /\ fx' = [fx EXCEPT !.selectedInputLanguage = l]
    /\ SubmitEffect(fx')
    /\ UNCHANGED <<valueTimer, svcVars, pageVars, auxVars>>

\* The user chooses an output language.
FetcherSelectOutput(l) ==
    /\ l # fx.selectedOutputLanguage
    /\ fx' = [fx EXCEPT !.selectedOutputLanguage = l]
    /\ SubmitEffect(fx')
    /\ UNCHANGED <<valueTimer, svcVars, pageVars, auxVars>>

\* handleSwapLanguages of this component: languages and texts change places.
FetcherSwap ==
    /\ ~(\/ fx.selectedInputLanguage = "auto"
         \/ fetcherTranslating
         \/ fx.selectedInputLanguage = fx.selectedOutputLanguage)
    /\ fx' = [fx EXCEPT !.selectedInputLanguage = fx.selectedOutputLanguage,
                        !.selectedOutputLanguage = fx.selectedInputLanguage,
                        !.inputText = fx.outputText,
                        !.outputText = fx.debouncedInputText]
    /\ DebounceEffect(fx')
    /\ SubmitEffect(fx')
    /\ UNCHANGED <<svcVars, pageVars, auxVars>>

\* The user presses the form's submit button: the fetcher's form is submitted
\* with its own fields (both the input select and the textarea are named
\* "inputText"; there is no field "inputLanguage" or "text"). The textarea is
\* required.
FetcherFormSubmit ==
    /\ fx.inputText # ""
    /\ translateFetcher' =
           [state |-> "submitting",
            req |-> [inputLanguage |-> Undefined,
                     outputLanguage |-> Str(fx.selectedOutputLanguage),
                     inputText |-> Undefined],
            data |-> translateFetcher.data]
    /\ UNCHANGED <<fx, valueTimer, svcVars, pageVars, auxVars>>

\* The effect on translateFetcher, the fetcher being idle:
\* if (translateFetcher.data?.outputText) setOutputText(...)
TakeOutput(data, shown) ==
    IF data.kind = "data" /\ Truthy(data.outputText) THEN data.outputText.s ELSE shown

\* The submission in flight is answered (o: what translateText's call settled
\* with, if it was made): the fetcher is idle with the answer as its data.
FetcherComplete(o) ==
    /\ fetcherTranslating
    /\ LET ans == ActionAnswer(translateFetcher.req, o)
       IN  /\ translateFetcher' = [translateFetcher EXCEPT !.state = "idle", !.data = ans]
           /\ fx' = [fx EXCEPT !.outputText = TakeOutput(ans, fx.outputText)]
    /\ UNCHANGED <<valueTimer, svcVars, pageVars, auxVars>>

----------------------------------------------------------------------------
(* translateText invoked several times, invocations overlapping, against a     *)
(* model that answers a message sequence the same way every time.             *)

MaxInvocations == 2
Invocations == 1..MaxInvocations
RepeatFrom == {"auto", "en"}
RepeatTo == {"en", "es"}
RepeatTexts == {"Hola"}
RepeatArgs == RepeatFrom \X RepeatTo \X RepeatTexts
RepeatOutcomes ==
    {[kind |-> "ok", error |-> "", choices |-> <<Str("Hello")>>],
     [kind |-> "ok", error |-> "", choices |-> <<Null>>],
     [kind |-> "throw", error |-> "network", choices |-> <<>>]}

NoFrame == [pc |-> "idle", args |-> <<"", "", "">>, messages |-> <<>>]

InitCalls ==
    /\ frames = [i \in Invocations |-> NoFrame]
    /\ answers = <<>>
    /\ returned = [a \in RepeatArgs |-> [count |-> 0, texts |-> {}]]

\* The invocation returns text for the arguments a.
Returns(a, text) ==
    returned' = [returned EXCEPT ![a] =
                    [count |-> IF @.count < 2 THEN @.count + 1 ELSE 2,
                     texts |-> @.texts \cup {text}]]

\* (mutant) the call sends what another invocation built
AskedShared(i) == frames[(i % MaxInvocations) + 1].messages

\* The messages chat.completions.create is called with: the array this
\* invocation built from its own arguments.
Asked(i) == frames[i].messages

\* Invocation i of translateText(from, to, text) up to its suspension.
Invoke(i, from, to, text) ==
    /\ frames[i].pc = "idle"
    /\ IF IsIdentity(from, to)
       THEN /\ Returns(<<from, to, text>>, text)
            /\ UNCHANGED frames
       ELSE /\ frames' = [frames EXCEPT ![i] =
                   [pc |-> "await", args |-> <<from, to, text>>,
                    messages |-> BuildMessages(text,
                                    FindName(getSupportedInputLanguages, from),
                                    FindName(getSupportedOutputLanguages, to))]]
            /\ UNCHANGED returned
    /\ UNCHANGED <<answers, svcVars, pageVars, fetVars, loadVars, heapVars>>

\* The call of invocation i settles with o, which is what the model answers to
\* these messages whenever it is asked; the invocation returns.
Complete(i, o) ==
    /\ frames[i].pc = "await"
    /\ LET asked == Asked(i)
       IN  IF asked \in DOMAIN answers
           THEN o = answers[asked] /\ UNCHANGED answers
           ELSE answers' = (asked :> o) @@ answers
    /\ Returns(frames[i].args, CatchBlock(TryBody(o)).value.s)
    /\ frames' = [frames EXCEPT ![i] = NoFrame]
    /\ UNCHANGED <<svcVars, pageVars, fetVars, loadVars, heapVars>>

----------------------------------------------------------------------------
(* The process: its environment, and the evaluation of the translation module *)
(* (the check of process.env.GROQ_API_KEY at its top level).  The environment *)
(* is taken not to change while the process runs.                             *)

EnvValues == {Undefined, Str(""), Str("gsk_key")}

\* (mutant) no check of the environment
HasKeyUnchecked(v) == TRUE

\* typeof process.env.GROQ_API_KEY === "string"
HasKey(v) == v.t = "string"

\* The module has been evaluated with the key in the environment.
InitLoaded ==
    /\ env = [GROQ_API_KEY |-> Str("gsk_key")]
    /\ loaded = "ready"
    /\ GROQ_API_KEY = env.GROQ_API_KEY

\* The process has started and nothing has imported the module yet.
InitProcess ==
    /\ env \in [GROQ_API_KEY : EnvValues]
    /\ loaded = "no"
    /\ GROQ_API_KEY = Undefined

\* The module is imported: its top level runs. A throw there fails the import,
\* and with it every module that imports this one; importing again runs into
\* the same check.
LoadModule ==
    /\ loaded \in {"no", "failed"}
    /\ IF HasKey(env.GROQ_API_KEY)
       THEN loaded' = "ready" /\ GROQ_API_KEY' = env.GROQ_API_KEY
       ELSE loaded' = "failed" /\ UNCHANGED GROQ_API_KEY
    /\ UNCHANGED <<env, svcVars, pageVars, fetVars, callVars, heapVars>>

----------------------------------------------------------------------------
(* The registry's arrays as objects: a caller holds the array a call returned *)
(* and may change it; an entry is part of its array's value.                  *)

MaxObjects == 2
Refs == 1..MaxObjects
RegistryFunctions == {"input", "output"}
Mutations == {"pop", "rename"}
ResolveFrom == {"auto", "fr"}
ResolveTo == {"de"}

NoObject == [live |-> FALSE, value |-> <<>>]
NoCall == [which |-> "none", ref |-> 0, value |-> <<>>, afterMutation |-> FALSE]
NoNames == [from |-> "", to |-> "", fromLanguage |-> Undefined, toLanguage |-> Undefined,
            afterMutation |-> FALSE]

\* The array literal of the registry function.
Literal(which) ==
    IF which = "input" THEN getSupportedInputLanguages ELSE getSupportedOutputLanguages

\* (mutant) one array per function, made once and returned by every call
SharedArray(h, which) ==
    LET r == IF which = "input" THEN 1 ELSE 2
    IN  [ref |-> r,
         heap |-> IF h[r].live THEN h
                  ELSE [h EXCEPT ![r] = [live |-> TRUE, value |-> Literal(which)]]]

\* return [ ... ]: evaluating the array literal makes a new object.
NewArray(h, which) ==
    LET r == CHOOSE x \in Refs : ~h[x].live
    IN  [ref |-> r, heap |-> [h EXCEPT ![r] = [live |-> TRUE, value |-> Literal(which)]]]

\* What a caller may do to an array it holds.
Mutated(list, m) ==
    CASE m = "pop" -> IF list = <<>> THEN list ELSE SubSeq(list, 1, Len(list) - 1)
      [] OTHER -> IF list = <<>> THEN list
                  ELSE [list EXCEPT ![1] = [id |-> @.id, name |-> "Klingon"]]

\* Some array in use no longer has the entries it was made with.
SomeMutated ==
    \E r \in Refs : heap[r].live /\ \A w \in RegistryFunctions : heap[r].value # Literal(w)

InitHeap ==
    /\ heap = [r \in Refs |-> NoObject]
    /\ lastCall = NoCall
    /\ resolved = NoNames

\* A caller calls getSupportedInputLanguages() or getSupportedOutputLanguages()
\* and keeps the array.
CallRegistry(which) ==
    /\ \E r \in Refs : ~heap[r].live
    /\ LET new == NewArray(heap, which)
       IN  /\ heap' = new.heap
           /\ lastCall' = [which |-> which, ref |-> new.ref,
                           value |-> new.heap[new.ref].value,
                           afterMutation |-> SomeMutated]
    /\ UNCHANGED <<resolved, svcVars, pageVars, fetVars, callVars, loadVars>>

\* A caller changes an array it holds.
Mutate(r, m) ==
    /\ heap[r].live
    /\ Mutated(heap[r].value, m) # heap[r].value
    /\ heap' = [heap EXCEPT ![r].value = Mutated(@, m)]
    /\ UNCHANGED <<lastCall, resolved, svcVars, pageVars, fetVars, callVars, loadVars>>

\* A caller lets go of an array.
Drop(r) ==
    /\ heap[r].live
    /\ heap' = [heap EXCEPT ![r] = NoObject]
    /\ UNCHANGED <<lastCall, resolved, svcVars, pageVars, fetVars, callVars, loadVars>>

\* translateText's two lookups: each calls the registry function and searches
\* the array it got, which nothing else holds.
ResolveNames(from, to) ==
    /\ \E r \in Refs : ~heap[r].live
    /\ LET ins == NewArray(heap, "input")
           outs == NewArray(heap, "output")
       IN  resolved' = [from |-> from, to |-> to,
                        fromLanguage |-> FindName(ins.heap[ins.ref].value, from),
                        toLanguage |-> FindName(outs.heap[outs.ref].value, to),
                        afterMutation |-> SomeMutated]
    /\ UNCHANGED <<heap, lastCall, svcVars, pageVars, fetVars, callVars, loadVars>>

Init == InitService /\ InitPage /\ InitFetcher /\ InitCalls /\ InitLoaded /\ InitHeap

Next ==
    \/ \E from \in CallIds, to \in CallIds, text \in CallTexts : TranslateText(from, to, text)
    \/ \E req \in Requests : Loader(req)
    \/ \E req \in Requests : IndexLoader(req)
    \/ \E req \in Requests : IndexAction(req)
    \/ \E o \in ApiOutcomes : ApiSettle(o)
    \/ Finish

Spec == Init /\ [][Next]_vars

NextPage ==
    \/ \E x \in PageTexts : EditText(x)
    \/ \E l \in PageInputLanguages : SelectInputLanguage(l)
    \/ \E l \in PageOutputLanguages : SelectOutputLanguage(l)
    \/ DebounceFire
    \/ \E button \in {"arrow", "other"} : HandleSubmit(button)
    \/ HandleSwapLanguages
    \/ FormSubmit
    \/ \E o \in PageOutcomes : NavigationComplete(o)
    \/ Tick

SpecPage == Init /\ [][NextPage]_vars

\* The page with what the browser and the server guarantee: time passes, a due
\* timer fires, a pending navigation is answered.  The user guarantees nothing.
SpecPageLive ==
    /\ SpecPage
    /\ WF_vars(Tick)
    /\ WF_vars(DebounceFire)
    /\ WF_vars(\E o \in PageOutcomes : NavigationComplete(o))

NextFetcher ==
    \/ \E x \in FetcherTexts : FetcherEditText(x)
    \/ FetcherDebounce
    \/ \E l \in PageInputLanguages : FetcherSelectInput(l)
    \/ \E l \in PageOutputLanguages : FetcherSelectOutput(l)
    \/ FetcherSwap
    \/ FetcherFormSubmit
    \/ \E o \in FetcherOutcomes : FetcherComplete(o)

SpecFetcher == Init /\ [][NextFetcher]_vars

NextCalls ==
    \/ \E i \in Invocations, a \in RepeatArgs : Invoke(i, a[1], a[2], a[3])
    \/ \E i \in Invocations, o \in RepeatOutcomes : Complete(i, o)

SpecCalls == Init /\ [][NextCalls]_vars

\* The process from its start: translateText and the route handlers exist only
\* once the module has been evaluated.
InitBoot == InitService /\ InitPage /\ InitFetcher /\ InitCalls /\ InitProcess /\ InitHeap

Serve == loaded = "ready" /\ Next

NextBoot == LoadModule \/ Serve

SpecBoot == InitBoot /\ [][NextBoot]_vars

NextRegistry ==
    \/ \E w \in RegistryFunctions : CallRegistry(w)
    \/ \E r \in Refs, m \in Mutations : Mutate(r, m)
    \/ \E r \in Refs : Drop(r)
    \/ \E from \in ResolveFrom, to \in ResolveTo : ResolveNames(from, to)

SpecRegistry == Init /\ [][NextRegistry]_vars

----------------------------------------------------------------------------
(* Properties of translateText and the registry *)

Handlers == {"loader", "indexLoader", "indexAction"}
HasRun == invoked /\ pc \in {"await", "done"}
LastMessage == messages[Len(messages)]

\* The display name each registry identifier stands for.
ExpectedName(id) ==
    CASE id = "auto" -> "Auto"
      [] id = "en" -> "English"
      [] id = "es" -> "Español"
      [] id = "de" -> "Deutsch"
      [] OTHER -> "?"

\* C1: translateText(L, L, t) returns t unchanged, having made no registry
\* lookup and issued no chat-completion call.
C1_IdentityReturnsText ==
    (HasRun /\ fromLanguageId = toLanguageId) =>
        /\ pc = "done"
        /\ result = Return(Str(inputText))
        /\ apiCalls = 0
        /\ lookups = 0
        /\ messages = <<>>
        /\ settled = NoOutcome

C1_Witness ==
    /\ HasRun
    /\ caller = "direct"
    /\ fromLanguageId = "auto"
    /\ toLanguageId = "auto"
    /\ inputText = "Hola mundo"
    /\ result = Return(Str("Hola mundo"))

\* C2: when the chat-completion call fails (a rejection of any kind, or a
\* response without choices), translateText returns "Error translating text"
\* and throws nothing; the handler that called it answers normally.
C2_ErrorBecomesFixedString ==
    (pc = "done" /\ fromLanguageId # toLanguageId /\ invoked
        /\ (settled.kind = "throw" \/ (settled.kind = "ok" /\ settled.choices = <<>>))) =>
        /\ result = [kind |-> "return", value |-> Str("Error translating text")]
        /\ caller \in Handlers => response.kind = "data"

C2_Witness ==
    /\ pc = "done"
    /\ settled.kind = "throw"
    /\ settled.error = "rate limit"
    /\ result.value = Str("Error translating text")

\* C3: for a valid pair the message sequence ends with exactly one user message,
\* text {{source name}} [[target name]], the text unmodified.
C3_FinalUserMessage ==
    (HasRun /\ fromLanguageId # toLanguageId
        /\ fromLanguageId \in {"auto", "en", "es", "de"}
        /\ toLanguageId \in {"en", "es", "de"}) =>
        /\ Len(messages) >= 2
        /\ LastMessage.role = "user"
        /\ messages[Len(messages) - 1].role # "user"
        /\ LastMessage.content =
              inputText \o " {{" \o ExpectedName(fromLanguageId) \o "}} [["
                        \o ExpectedName(toLanguageId) \o "]]"

C3_Witness ==
    /\ pc = "await"
    /\ fromLanguageId = "auto"
    /\ toLanguageId = "de"
    /\ LastMessage.content = "How are you? {{Auto}} [[Deutsch]]"

\* C4: when the call completes with a first choice, translateText returns that
\* choice's content, or the empty string when the content is absent or empty;
\* what it returns is always a string.
C4_ResultExtraction ==
    (pc = "done" /\ settled.kind = "ok" /\ Len(settled.choices) >= 1) =>
        /\ result.kind = "return"
        /\ result.value.t = "string"
        /\ LET content == settled.choices[1]
           IN  IF content.t = "string" THEN result.value = content
               ELSE result.value = Str("")

C4_Witness ==
    /\ pc = "done"
    /\ settled.kind = "ok"
    /\ Len(settled.choices) >= 1
    /\ settled.choices[1] = Null
    /\ result = Return(Str(""))

\* C5 as stated: an identifier absent from its registry leaves its markers empty.
C5_MissingNameIsEmpty ==
    (HasRun /\ fromLanguageId # toLanguageId) =>
        LET from == IF fromLanguageId \in {"auto", "en", "es", "de"}
                    THEN ExpectedName(fromLanguageId) ELSE ""
            to == IF toLanguageId \in {"en", "es", "de"}
                  THEN ExpectedName(toLanguageId) ELSE ""
        IN  LastMessage.content = inputText \o " {{" \o from \o "}} [[" \o to \o "]]"

\* C5 (amended): with an identifier absent from its registry (and source #
\* target) the request is not rejected: the call is issued, and the missing
\* display name is rendered as the text "undefined" inside its markers.
C5_MissingNameIsUndefinedText ==
    (HasRun /\ fromLanguageId # toLanguageId) =>
        LET from == IF fromLanguageId \in {"auto", "en", "es", "de"}
                    THEN ExpectedName(fromLanguageId) ELSE "undefined"
            to == IF toLanguageId \in {"en", "es", "de"}
                  THEN ExpectedName(toLanguageId) ELSE "undefined"
        IN  /\ apiCalls = 1
            /\ result.kind # "throw"
            /\ LastMessage.content = inputText \o " {{" \o from \o "}} [[" \o to \o "]]"

C5_Witness ==
    /\ pc = "done"
    /\ fromLanguageId = "fr"
    /\ toLanguageId = "auto"
    /\ result = Return(Str("Hello world"))
    /\ LastMessage.content = "Hola mundo {{undefined}} [[undefined]]"

\* C6: an invocation issues one chat-completion call when source # target and
\* none on the identity path; a call that failed is not issued again.
C6_AtMostOneCall ==
    /\ apiCalls <= 1
    /\ HasRun => apiCalls = (IF fromLanguageId = toLanguageId THEN 0 ELSE 1)
    /\ ~invoked => apiCalls = 0
    /\ settled.kind = "throw" => (pc = "done" /\ apiCalls = 1)

C6_Witness ==
    /\ pc = "done"
    /\ settled.kind = "throw"
    /\ apiCalls = 1
    /\ caller = "loader"

\* C9: a route handler calls translateText only with a source in {auto, en, es,
\* de}, a target in {en, es, de} and a text of 3 to the schema's maximum
\* characters, all taken from the request (the loader's defaults aside); a
\* request failing a check does not reach translateText.
C9_ValidatedArguments ==
    (caller \in Handlers /\ invoked) =>
        /\ fromLanguageId \in {"auto", "en", "es", "de"}
        /\ toLanguageId \in {"en", "es", "de"}
        /\ Len(inputText) >= 3
        /\ Len(inputText) <= (IF caller = "loader" THEN 200 ELSE 50)
        /\ request.inputText = Str(inputText)
        /\ \/ request.inputLanguage = Str(fromLanguageId)
           \/ /\ caller = "loader"
              /\ request.inputLanguage \in {Undefined, Str("")}
              /\ fromLanguageId = "auto"
        /\ \/ request.outputLanguage = Str(toLanguageId)
           \/ /\ caller = "loader"
              /\ request.outputLanguage \in {Undefined, Str("")}
              /\ toLanguageId = "en"

C9_Witness ==
    /\ caller = "loader"
    /\ invoked
    /\ Len(inputText) = 200
    /\ request.inputLanguage = Undefined
    /\ fromLanguageId = "auto"
    /\ toLanguageId = "de"
    /\ pc = "await"

\* C10: getSupportedInputLanguages returns auto, en, es, de and
\* getSupportedOutputLanguages returns en, es, de, in these orders; every output
\* identifier is an input identifier, and auto is no output identifier.
C10_RegistryLists ==
    /\ gotInput # <<>> => Ids(gotInput) = <<"auto", "en", "es", "de">>
    /\ gotOutput # <<>> =>
        /\ Ids(gotOutput) = <<"en", "es", "de">>
        /\ \A i \in 1..Len(gotOutput) : gotOutput[i].id # "auto"
    /\ (gotInput # <<>> /\ gotOutput # <<>>) =>
        \A i \in 1..Len(gotOutput) : \E j \in 1..Len(gotInput) : gotInput[j].id = gotOutput[i].id

C10_Witness ==
    /\ Len(gotInput) = 4
    /\ Len(gotOutput) = 3
    /\ caller = "indexLoader"

----------------------------------------------------------------------------
(* Properties of the pages *)

\* C7: whenever no request is outstanding, the output the page shows is the
\* result of the request issued last (nothing, when that request was refused),
\* not the result of an earlier one.
C7_ShowsLatestResult ==
    ~fetcherTranslating =>
        FetcherShownOutput =
            (IF translateFetcher.data.kind = "data"
             THEN translateFetcher.data.outputText.s ELSE "")

\* C8 as stated: no two requests are issued within one debounce interval.
C8_OneRequestPerInterval == ~log.burst

\* C8 (amended): a request that textarea edits lead to is issued only once
\* DebounceMs have passed since the last such edit.
C8_TextareaEditsDebounced == ~log.early

C8_Witness ==
    /\ log.coalesced
    /\ log.sinceIssue = 0
    /\ isTranslating
    /\ ~log.burst

\* C11: against a model that answers a message sequence the same way every
\* time, all invocations of translateText with the same arguments, source and
\* target differing, return the same text, whatever other invocations run in
\* between or at the same time.
C11_SameArgumentsSameText ==
    \A a \in RepeatArgs :
        ~IsIdentity(a[1], a[2]) => Cardinality(returned[a].texts) <= 1

C11_Witness ==
    \E a, b \in RepeatArgs :
        /\ a # b
        /\ ~IsIdentity(a[1], a[2])
        /\ returned[a].count = 2
        /\ returned[b].count >= 1
        /\ returned[a].texts # returned[b].texts
        /\ \E i \in Invocations : frames[i].pc = "await"

\* C12: when GROQ_API_KEY is absent from the environment, the module never
\* becomes ready: translateText is never invoked, no call is issued, and no
\* request is answered, with the error string or otherwise.
C12_MissingKeyIsFatal ==
    env.GROQ_API_KEY.t # "string" =>
        /\ loaded # "ready"
        /\ pc = "idle"
        /\ ~invoked
        /\ apiCalls = 0
        /\ result = NoCompletion
        /\ response = NoResponse

C12_Witness == env.GROQ_API_KEY.t # "string" /\ loaded = "failed"

\* C13: whatever callers did to the arrays they were given, a call of
\* getSupportedInputLanguages or getSupportedOutputLanguages returns the fixed
\* catalog, and translateText resolves the names of the fixed catalog.
C13_FreshLists ==
    /\ lastCall.which # "none" => lastCall.value = Literal(lastCall.which)
    /\ resolved.from # "" =>
           /\ resolved.fromLanguage = FindName(getSupportedInputLanguages, resolved.from)
           /\ resolved.toLanguage = FindName(getSupportedOutputLanguages, resolved.to)

C13_Witness ==
    /\ lastCall.afterMutation
    /\ resolved.afterMutation
    /\ SomeMutated
    /\ heap[lastCall.ref].live
    /\ heap[lastCall.ref].value = lastCall.value

\* C14: every request the page issues carries an outputLanguage of the output
\* catalog, and the loader's throw on invalid search params is never reached.
C14_RequestsCarryOutputLanguage ==
    /\ isTranslating =>
           navigation.req.outputLanguage \in {Str(l) : l \in OutputLanguageEnum}
    /\ ~crashed

\* The texts the user may type that the loader accepts.
AcceptedTexts == {x \in PageTexts : ParseText(Str(x), MinTextLen, MaxTextLen).ok}

\* C15: when the textarea comes to hold an accepted text for good (the user
\* has stopped editing), a request carrying that text is eventually issued.
C15_FinalTextSubmitted ==
    \A x \in AcceptedTexts :
        <>[](ui.inputText = x /\ ~crashed)
            => <>(isTranslating /\ navigation.req.inputText = Str(x))

====
